---- MODULE Spec2Model ----
(***************************************************************************)
(* A model of the epserde serialization header and of the two             *)
(* deserialization entry points (full-copy and eps-copy).                 *)
(*                                                                         *)
(* Bytes are naturals in 0..255 and a stream is a sequence of bytes.       *)
(* The modelled platform is 64-bit little-endian, so to_ne_bytes is the   *)
(* little-endian encoding.  A 64-bit word that does not fit TLC's          *)
(* integers (the magic cookie, the two type hashes) is represented by its *)
(* eight native-endian bytes; two such words are equal exactly when their *)
(* byte sequences are.                                                     *)
(***************************************************************************)
EXTENDS Integers, Sequences, FiniteSets, TLC

(* ---------------------------------------------------------------- bounds *)

\* largest integer value of a primitive that is serialized
MaxVal == 1
\* longest Vec / String value that is serialized
MaxLen == 1
\* version numbers found in crafted streams range over 0..MaxVersion
MaxVersion == 2

\* how many times a value is serialized in one process
MaxRuns == 2
\* the most calls of a load function on one file
MaxLoads == 2

(* ------------------------------------------------------------- constants *)

\* core::mem::size_of::<usize>() of the modelled platform
USIZE_BYTES == 8

\* crate::VERSION.0 and crate::VERSION.1
VERSION_MAJOR == 1
VERSION_MINOR == 1

\* crate::MAGIC: the bytes of "epserde " read as a native-endian u64
MAGIC == <<101, 112, 115, 101, 114, 100, 101, 32>>

Reverse(s) == [i \in 1..Len(s) |-> s[Len(s) + 1 - i]]

\* crate::MAGIC_REV: MAGIC with its bytes reversed
MAGIC_REV == Reverse(MAGIC)

\* a usize too large for any stream of the model (any value >= 2^24)
Huge == 256 * 65536

\* the usize 2^62, whose product with 4 exceeds the usize range
Quarter == 2 * Huge

(* ------------------------------------------------------------ byte tools *)

Pow256(i) == CASE i = 0 -> 1 [] i = 1 -> 256 [] i = 2 -> 65536 [] OTHER -> Huge

\* <int>::to_ne_bytes on a little-endian platform, for values below 2^24
\* and for 2^62
to_ne_bytes(v, n) ==
    [i \in 1..n |-> IF v = Quarter THEN (IF i = 8 THEN 64 ELSE 0)
                    ELSE IF i <= 3 THEN (v \div Pow256(i - 1)) % 256 ELSE 0]

\* <int>::from_ne_bytes on a little-endian platform; a value of 2^24 or
\* more is reported as Huge, 2^62 as Quarter
from_ne_bytes(buf) ==
    IF buf = <<0, 0, 0, 0, 0, 0, 0, 64>> THEN Quarter
    ELSE IF \E i \in 4..Len(buf) : buf[i] # 0
    THEN Huge
    ELSE (IF Len(buf) >= 1 THEN buf[1] ELSE 0)
         + (IF Len(buf) >= 2 THEN buf[2] * 256 ELSE 0)
         + (IF Len(buf) >= 3 THEN buf[3] * 65536 ELSE 0)

Zeros(n) == [i \in 1..n |-> 0]

\* crate::pad_align_to: bytes of padding that bring pos to a multiple of align
pad_align_to(pos, align) == (align - (pos % align)) % align

(* ----------------------------------------------------------------- types *)

Prim(n) == [k |-> "prim", name |-> n]
OptionOf(t) == [k |-> "Option", of |-> t]
VecOf(t) == [k |-> "Vec", of |-> t]
UnitT == [k |-> "unit"]
PhantomOf(t) == [k |-> "PhantomData", of |-> t]
StringT == [k |-> "String"]

\* a field of a struct given to the derive macros: its name, its type, and
\* whether its declared type is a type parameter of the struct
FieldDecl(n, ty, g) == [name |-> n, ty |-> ty, generic |-> g]

\* a struct given to the derive macros: its name, whether it carries
\* #[repr(C)], #[zero_copy], #[full_copy], and its fields in declaration order
StructDecl(n, rc, zc, fc, fs) ==
    [k |-> "struct", name |-> n, repr_c |-> rc, zero_copy |-> zc,
     full_copy |-> fc, fields |-> fs]

\* struct Struct { a: usize, b: usize, c: u32 }
StructFields == <<FieldDecl("a", Prim("usize"), FALSE),
                  FieldDecl("b", Prim("usize"), FALSE),
                  FieldDecl("c", Prim("u32"), FALSE)>>

\* struct Data<A> { a: A, b: Vec<u32> } with A = Vec<u32>
DataFields == <<FieldDecl("a", VecOf(Prim("u32")), TRUE),
                FieldDecl("b", VecOf(Prim("u32")), FALSE)>>

\* the declarations the derive macros are given
Declarations ==
    {StructDecl(d[1], rc, zc, fc, d[2]) :
        d \in {<<"Struct", StructFields>>, <<"Data", DataFields>>},
        rc \in BOOLEAN, zc \in BOOLEAN, fc \in BOOLEAN}

\* check_attrs: the derive panics on a zero-copy struct that is not repr(C)
\* and on one declared both zero copy and full copy
check_attrs(d) ==
    IF d.zero_copy /\ ~d.repr_c THEN "panic"
    ELSE IF d.zero_copy /\ d.full_copy THEN "panic"
    ELSE "ok"

\* the structs whose derive succeeds
DerivedTypes == {d \in Declarations : check_attrs(d) = "ok"}

\* the types a value is serialized from / deserialized as
Types == { Prim("u8"), Prim("u32"), Prim("usize"), Prim("bool"), Prim("char"),
           OptionOf(Prim("u32")), VecOf(Prim("u32")), StringT,
           UnitT, PhantomOf(Prim("u8")), PhantomOf(Prim("u32")) }

\* core::mem::size_of of a primitive
PrimSize(n) == CASE n = "u8" -> 1 [] n = "u16" -> 2 [] n = "u32" -> 4
                 [] n = "u64" -> 8 [] n = "usize" -> 8 [] n = "bool" -> 1
                 [] n = "char" -> 4

Max(a, b) == IF a > b THEN a ELSE b

\* core::mem::align_of of a type
RECURSIVE AlignOf(_)
AlignOf(t) == CASE t.k = "prim" -> PrimSize(t.name)
                [] t.k = "Option" -> AlignOf(t.of)
                [] t.k = "Vec" -> 8
                [] t.k = "String" -> 8
                [] t.k \in {"unit", "PhantomData"} -> 1
                [] t.k = "struct" ->
                      LET RECURSIVE M(_)
                          M(i) == IF i = 0 THEN 1
                                  ELSE Max(AlignOf(t.fields[i].ty), M(i - 1))
                      IN M(Len(t.fields))

\* core::mem::size_of of a type (Option<T> of an integer T has no niche; a
\* struct is laid out as repr(C) lays it out: every field at the next
\* multiple of its alignment, the size a multiple of the struct's alignment)
RECURSIVE SizeOf(_)
SizeOf(t) == CASE t.k = "prim" -> PrimSize(t.name)
               [] t.k = "Option" -> 2 * PrimSize(t.of.name)
               [] t.k = "Vec" -> 24
               [] t.k = "String" -> 24
               [] t.k \in {"unit", "PhantomData"} -> 0
               [] t.k = "struct" ->
                     LET RECURSIVE End(_)
                         End(i) ==
                            IF i = 0 THEN 0
                            ELSE LET e == End(i - 1)
                                     ty == t.fields[i].ty
                                 IN e + pad_align_to(e, AlignOf(ty)) + SizeOf(ty)
                         e == End(Len(t.fields))
                     IN e + pad_align_to(e, AlignOf(t))

\* SerializeInner::IS_ZERO_COPY
RECURSIVE IS_ZERO_COPY(_)
IS_ZERO_COPY(t) ==
    CASE t.k \in {"prim", "unit"} -> TRUE
      [] t.k \in {"Option", "Vec", "String", "PhantomData"} -> FALSE
      [] t.k = "struct" ->
            t.repr_c /\ \A i \in 1..Len(t.fields) : IS_ZERO_COPY(t.fields[i].ty)

\* ZERO_COPY_MISMATCH without the test of #[full_copy]
ZERO_COPY_MISMATCH_noFullCopy(t) ==
    CASE t.k \in {"prim", "unit", "PhantomData", "Option", "Vec", "String"} -> FALSE
      [] t.k = "struct" ->
            IF t.zero_copy THEN FALSE
            ELSE \A i \in 1..Len(t.fields) : IS_ZERO_COPY(t.fields[i].ty)

\* SerializeInner::ZERO_COPY_MISMATCH
ZERO_COPY_MISMATCH(t) ==
    CASE t.k \in {"prim", "unit", "PhantomData", "Option", "Vec", "String"} -> FALSE
      [] t.k = "struct" ->
            IF t.zero_copy THEN FALSE
            ELSE ~t.full_copy
                 /\ \A i \in 1..Len(t.fields) : IS_ZERO_COPY(t.fields[i].ty)

\* stringify!($ty) / the literal fed to the hasher, as UTF-8 bytes
NameBytes(n) == CASE n = "u8" -> <<117, 56>>
                  [] n = "u16" -> <<117, 49, 54>>
                  [] n = "u32" -> <<117, 51, 50>>
                  [] n = "u64" -> <<117, 54, 52>>
                  [] n = "usize" -> <<117, 115, 105, 122, 101>>
                  [] n = "bool" -> <<98, 111, 111, 108>>
                  [] n = "char" -> <<99, 104, 97, 114>>
                  [] n = "Option" -> <<79, 112, 116, 105, 111, 110>>
                  [] n = "Vec" -> <<86, 101, 99>>
                  [] n = "String" -> <<83, 116, 114, 105, 110, 103>>
                  [] n = "Struct" -> <<83, 116, 114, 117, 99, 116>>
                  [] n = "Data" -> <<68, 97, 116, 97>>
                  [] n = "a" -> <<97>>
                  [] n = "b" -> <<98>>
                  [] n = "c" -> <<99>>
                  [] n = "C" -> <<67>>
                  [] n = "()" -> <<40, 41>>

\* core::any::type_name::<T>() as UTF-8 bytes
RECURSIVE type_name(_)
type_name(t) ==
    CASE t.k = "prim" -> NameBytes(t.name)
      [] t.k = "Option" ->
            <<99, 111, 114, 101, 58, 58, 111, 112, 116, 105, 111, 110, 58, 58,
              79, 112, 116, 105, 111, 110, 60>> \o type_name(t.of) \o <<62>>
      [] t.k = "Vec" ->
            <<97, 108, 108, 111, 99, 58, 58, 118, 101, 99, 58, 58, 86, 101, 99, 60>>
            \o type_name(t.of) \o <<62>>
      [] t.k = "String" ->
            <<97, 108, 108, 111, 99, 58, 58, 115, 116, 114, 105, 110, 103, 58, 58,
              83, 116, 114, 105, 110, 103>>
      [] t.k = "struct" -> NameBytes(t.name)
      [] t.k = "unit" -> NameBytes("()")
      [] t.k = "PhantomData" ->
            <<99, 111, 114, 101, 58, 58, 109, 97, 114, 107, 101, 114, 58, 58,
              80, 104, 97, 110, 116, 111, 109, 68, 97, 116, 97, 60>>
            \o type_name(t.of) \o <<62>>

(* ---------------------------------------------------------------- hashes *)

\* <str as Hash>::hash: the bytes of the string followed by 0xff
HashStr(bytes) == bytes \o <<255>>

\* <usize as Hash>::hash: the native-endian bytes of the value
HashUsize(v) == to_ne_bytes(v, 8)

\* <bool as Hash>::hash: one byte
HashBool(b) == <<IF b THEN 1 ELSE 0>>

RECURSIVE type_hash(_)

\* the names and the types of the fields taken in the order ord
RECURSIVE feed_in_order(_, _, _)
feed_in_order(t, ord, what) ==
    IF ord = <<>> THEN <<>>
    ELSE (IF what = "name" THEN HashStr(NameBytes(t.fields[Head(ord)].name))
          ELSE type_hash(t.fields[Head(ord)].ty))
         \o feed_in_order(t, Tail(ord), what)

\* fields_feed with the fields taken in the order of their names, whatever
\* the order they are declared in
fields_feed_sorted(t) ==
    LET n == Len(t.fields)
        ord == CHOOSE p \in [1..n -> 1..n] :
                  /\ \A i, j \in 1..n : i # j => p[i] # p[j]
                  /\ \A i, j \in 1..n :
                        i < j => NameBytes(t.fields[p[i]].name)[1]
                                   <= NameBytes(t.fields[p[j]].name)[1]
    IN feed_in_order(t, ord, "name") \o feed_in_order(t, ord, "type")

\* #( #fields_names.hash(hasher); )* #( <#fields_types>::type_hash(hasher); )*:
\* the names of the fields in declaration order, then the type_hash of their
\* types in declaration order
fields_feed(t) ==
    feed_in_order(t, [i \in 1..Len(t.fields) |-> i], "name")
    \o feed_in_order(t, [i \in 1..Len(t.fields) |-> i], "type")

\* TypeHash::type_hash: the bytes fed to the hasher
type_hash(t) ==
    CASE t.k = "prim" -> HashStr(NameBytes(t.name))
      [] t.k = "Option" -> HashStr(NameBytes("Option")) \o type_hash(t.of)
      [] t.k = "Vec" -> HashStr(NameBytes("Vec")) \o type_hash(t.of)
      [] t.k = "String" -> HashStr(NameBytes("String"))
      [] t.k = "unit" -> HashStr(NameBytes("()"))
      [] t.k = "PhantomData" -> <<>>
      [] t.k = "struct" ->
            HashBool(t.zero_copy)
            \o (IF t.repr_c THEN HashStr(NameBytes("C")) ELSE <<>>)
            \o HashStr(NameBytes(t.name))
            \o fields_feed(t)

\* type_repr_hash of a derived struct: its alignment and size (the derive
\* macro gives no type_repr_hash)
struct_repr_hash(t) == HashUsize(AlignOf(t)) \o HashUsize(SizeOf(t))

\* TypeHash::type_repr_hash: the bytes fed to the hasher
RECURSIVE type_repr_hash(_)
type_repr_hash(t) ==
    CASE t.k = "prim" -> HashUsize(AlignOf(t)) \o HashUsize(SizeOf(t))
      [] t.k = "Option" ->
            HashUsize(AlignOf(t)) \o HashUsize(SizeOf(t)) \o type_repr_hash(t.of)
      [] t.k = "Vec" -> type_repr_hash(t.of)
      [] t.k = "String" -> <<>>
      [] t.k = "unit" -> HashUsize(AlignOf(t)) \o HashUsize(SizeOf(t))
      [] t.k = "PhantomData" -> <<>>
      [] t.k = "struct" -> struct_repr_hash(t)

RECURSIVE Mix(_, _)
Mix(feed, h) == IF feed = <<>> THEN h
                ELSE Mix(Tail(feed), (h * 31 + Head(feed) + 1) % 65521)

\* Xxh3::new() ... finish(): a 64-bit digest of the bytes fed, as the eight
\* native-endian bytes of the u64
Xxh3(feed) ==
    LET h == Mix(feed, 7)
    IN [i \in 1..8 |-> ((h \div (i + 1)) + 37 * i + (h % 11) * i * i + 1) % 256]

(* -------------------------------------------------- values and results *)

\* the values of a type that are serialized
ValuesOf(t) ==
    CASE t.k = "prim" -> IF t.name = "bool" THEN BOOLEAN ELSE 0..MaxVal
      [] t.k = "Option" -> {<<>>} \cup {<<x>> : x \in 0..MaxVal}
      [] t.k = "Vec" -> UNION {[1..n -> 1..MaxVal] : n \in 0..MaxLen}
      [] t.k = "String" -> UNION {[1..n -> {65, 86}] : n \in 0..MaxLen}
      [] t.k = "unit" -> {"()"}
      [] t.k = "PhantomData" -> {"PhantomData"}
      [] t.k = "struct" ->
            {[i \in 1..Len(t.fields) |->
                IF t.fields[i].ty.k = "prim" THEN i ELSE <<i>>]}

\* DeserializeError::*
ReadError == [kind |-> "ReadError"]
EndiannessError == [kind |-> "EndiannessError"]
AlignmentError == [kind |-> "AlignmentError"]
MagicCookieError(m) == [kind |-> "MagicCookieError", magic |-> m]
MajorVersionMismatch(v) == [kind |-> "MajorVersionMismatch", found |-> v]
MinorVersionMismatch(v) == [kind |-> "MinorVersionMismatch", found |-> v]
UsizeSizeMismatch(v) == [kind |-> "UsizeSizeMismatch", found |-> v]
InvalidTag(t) == [kind |-> "InvalidTag", tag |-> t]
WrongTypeHash(gn, g, en, e) ==
    [kind |-> "WrongTypeHash", got_type_name |-> gn, got |-> g,
     expected_type_name |-> en, expected |-> e]
WrongTypeReprHash(gn, g, en, e) ==
    [kind |-> "WrongTypeReprHash", got_type_name |-> gn, got |-> g,
     expected_type_name |-> en, expected |-> e]
NoError == [kind |-> "none"]

\* Result<(value, backend)>: Ok((val, backend at pos)), Err(err), or a panic
Ok(val, pos) == [st |-> "Ok", val |-> <<val>>, pos |-> pos, err |-> NoError]
Err(e, pos) == [st |-> "Err", val |-> <<>>, pos |-> pos, err |-> e]
Panic(pos) == [st |-> "Panic", val |-> <<>>, pos |-> pos, err |-> NoError]
Val(r) == r.val[1]

(* ------------------------------------------------------------ the writer *)

\* FieldWrite::add_padding_to_align: the zero bytes written at pos
add_padding_to_align(pos, align) == Zeros(pad_align_to(pos, align))

\* write_slice_zero: padding to the alignment of usize, len as usize, padding
\* to the element's alignment, then the elements in bulk
write_slice_zero(elemSize, v, pos) ==
    LET pad0 == add_padding_to_align(pos, 8)
        lenBytes == to_ne_bytes(Len(v), 8)
        pad == add_padding_to_align(pos + Len(pad0) + 8, elemSize)
        RECURSIVE Bulk(_)
        Bulk(s) == IF s = <<>> THEN <<>>
                   ELSE to_ne_bytes(Head(s), elemSize) \o Bulk(Tail(s))
    IN pad0 \o lenBytes \o pad \o Bulk(v)

\* the order in which the derived _serialize_inner adds the fields: the
\* repetition #( backend.add_field(...) )* over the fields as declared
ser_order(t) == [i \in 1..Len(t.fields) |-> i]

RECURSIVE _serialize_inner(_, _, _)

\* the derived _serialize_inner: backend.add_field(stringify!(name),
\* &self.name) for the fields from the k-th of ser_order on: for each the
\* field, the offset it is written at and its bytes
RECURSIVE field_writes(_, _, _, _)
field_writes(t, v, k, pos) ==
    IF k > Len(t.fields) THEN <<>>
    ELSE LET i == ser_order(t)[k]
             b == _serialize_inner(t.fields[i].ty, v[i], pos)
         IN <<[field |-> t.fields[i].name, offset |-> pos, bytes |-> b]>>
            \o field_writes(t, v, k + 1, pos + Len(b))

\* the bytes of a sequence of writes
RECURSIVE Concat(_)
Concat(ws) == IF ws = <<>> THEN <<>> ELSE Head(ws).bytes \o Concat(Tail(ws))

\* the padding the derived _serialize_inner of a zero-copy struct writes
\* first: backend.add_padding_to_align(align_of::<Self>())
derive_padding(t, pos) ==
    IF t.zero_copy THEN add_padding_to_align(pos, AlignOf(t)) ELSE <<>>

\* the derived _serialize_inner of a zero-copy struct panics when
\* IS_ZERO_COPY is false
ser_panics(t) == t.k = "struct" /\ t.zero_copy /\ ~IS_ZERO_COPY(t)

\* the derived _serialize_inner of a struct that is not zero copy prints a
\* warning naming the type when ZERO_COPY_MISMATCH is true
ser_warnings(t) ==
    IF t.k = "struct" /\ ~t.zero_copy /\ ZERO_COPY_MISMATCH(t)
    THEN <<t.name>> ELSE <<>>

\* _serialize_inner with a byte written for a zero-sized value
_serialize_inner_marker(t, v, pos) ==
    CASE t.k = "prim" /\ t.name = "bool" -> <<IF v THEN 1 ELSE 0>>
      [] t.k = "prim" /\ t.name # "bool" -> to_ne_bytes(v, PrimSize(t.name))
      [] t.k = "Option" ->
            IF v = <<>> THEN to_ne_bytes(0, 1)
            ELSE to_ne_bytes(1, 1) \o to_ne_bytes(v[1], PrimSize(t.of.name))
      [] t.k = "Vec" -> write_slice_zero(PrimSize(t.of.name), v, pos)
      [] t.k = "String" -> write_slice_zero(1, v, pos)
      [] t.k \in {"unit", "PhantomData"} -> <<0>>
      [] t.k = "struct" ->
            LET pad == derive_padding(t, pos)
            IN pad \o Concat(field_writes(t, v, 1, pos + Len(pad)))

\* SerializeInner::_serialize_inner of a value v of type t, written at pos:
\* the bytes handed to backend.write
_serialize_inner(t, v, pos) ==
    CASE t.k = "prim" /\ t.name = "bool" -> <<IF v THEN 1 ELSE 0>>
      [] t.k = "prim" /\ t.name # "bool" -> to_ne_bytes(v, PrimSize(t.name))
      [] t.k = "Option" ->
            IF v = <<>> THEN to_ne_bytes(0, 1)
            ELSE to_ne_bytes(1, 1) \o to_ne_bytes(v[1], PrimSize(t.of.name))
      [] t.k = "Vec" -> write_slice_zero(PrimSize(t.of.name), v, pos)
      [] t.k = "String" -> write_slice_zero(1, v, pos)
      [] t.k \in {"unit", "PhantomData"} -> <<>>
      [] t.k = "struct" ->
            LET pad == derive_padding(t, pos)
            IN pad \o Concat(field_writes(t, v, 1, pos + Len(pad)))

\* the header fields in the order serialize_on_field_write adds them
HeaderFields == <<"MAGIC", "VERSION_MAJOR", "VERSION_MINOR", "USIZE_SIZE",
                  "TYPE_HASH", "TYPE_REPR_HASH", "TYPE_NAME">>

\* the bytes add_field writes for header field f of a stream of type t
\* (add_field does not pad; a u64 word is written as its native-endian bytes)
HeaderFieldBytes(f, t, pos) ==
    CASE f = "MAGIC" -> MAGIC
      [] f = "VERSION_MAJOR" -> to_ne_bytes(VERSION_MAJOR, 2)
      [] f = "VERSION_MINOR" -> to_ne_bytes(VERSION_MINOR, 2)
      [] f = "USIZE_SIZE" -> to_ne_bytes(USIZE_BYTES, 2)
      [] f = "TYPE_HASH" -> Xxh3(type_hash(t))
      [] f = "TYPE_REPR_HASH" -> Xxh3(type_repr_hash(t))
      [] f = "TYPE_NAME" -> write_slice_zero(1, type_name(t), pos)

\* FieldWrite::add_field_align("ROOT", self): padding to align_of::<Self>(),
\* then the value
add_field_align(t, v, pos) ==
    LET pad == add_padding_to_align(pos, AlignOf(t))
    IN pad \o _serialize_inner(t, v, pos + Len(pad))

(* ------------------------------------------------------------ the reader *)

\* ReadWithPos::read_exact on the bytes data with pos bytes already read
read_exact(data, pos, n) ==
    IF pos + n > Len(data) THEN Err(ReadError, pos)
    ELSE Ok(SubSeq(data, pos + 1, pos + n), pos + n)

\* <$ty>::_deserialize_full_copy_inner of impl_prim_ser_des for a 64-bit
\* word of the header: read_exact of 8 bytes, no padding
word_full_copy(data, pos) == read_exact(data, pos, 8)

\* <$ty>::_deserialize_full_copy_inner of impl_prim_ser_des, value as integer
prim_full_copy(n, data, pos) ==
    LET r == read_exact(data, pos, PrimSize(n))
    IN IF r.st # "Ok" THEN r ELSE Ok(from_ne_bytes(Val(r)), r.pos)

\* <$ty>::_deserialize_eps_copy_inner of impl_prim_ser_des: indexes
\* backend.data[..size_of], which panics on a short slice
prim_eps_copy(n, data, pos) ==
    IF pos + PrimSize(n) > Len(data) THEN Panic(pos)
    ELSE Ok(from_ne_bytes(SubSeq(data, pos + 1, pos + PrimSize(n))),
            pos + PrimSize(n))

\* pad_align_and_check without the test of the address
pad_align_and_check_noCheck(base, data, pos, align) ==
    LET p == pos + pad_align_to(pos, align)
    IN IF p > Len(data) THEN Panic(pos) ELSE Ok(0, p)

\* pad_align_and_check: skip the padding to align, then AlignmentError
\* unless the address of the next byte is a multiple of align
pad_align_and_check(base, data, pos, align) ==
    LET p == pos + pad_align_to(pos, align)
    IN IF p > Len(data) THEN Panic(pos)
       ELSE IF (base + p) % align # 0 THEN Err(AlignmentError, p)
       ELSE Ok(0, p)

\* <$ty>::_deserialize_full_copy_inner of impl_prim, on a Cursor:
\* pad_align_and_check, then backend.data[..size_of], which panics on a
\* short slice
impl_prim(n, base, data, pos) ==
    LET a == pad_align_and_check(base, data, pos, PrimSize(n))
    IN IF a.st # "Ok" THEN a
       ELSE IF a.pos + PrimSize(n) > Len(data) THEN Panic(a.pos)
       ELSE Ok(from_ne_bytes(SubSeq(data, a.pos + 1, a.pos + PrimSize(n))),
               a.pos + PrimSize(n))

\* char::from_u32: Some for every code point that is not a surrogate
is_char(x) == x < 55296 \/ (x > 57343 /\ x <= 1114111)

\* .map(|(x, c)| (char::from_u32(x).unwrap(), c)) on what the u32 reader
\* returned
char_from_u32(r) ==
    IF r.st # "Ok" THEN r
    ELSE IF ~is_char(Val(r)) THEN Panic(r.pos) ELSE r

\* from_utf8 succeeds exactly on the well-formed sequences; the streams of
\* the model hold ASCII or bytes >= 128 that no well-formed sequence has
is_utf8(bytes) == \A i \in 1..Len(bytes) : bytes[i] < 128

\* how the crate was compiled: with overflow checks (the dev profile) or
\* without them (the release profile)
VARIABLE build

Builds == {"dev", "release"}

\* whether len * size exceeds the usize range, for the lengths and the sizes
\* of the model
mul_overflows(len, size) == len = Quarter /\ size % 4 = 0

\* len * size_of::<T>() where it does not panic: the product modulo 2^64
wrapping_mul(len, size) == IF mul_overflows(len, size) THEN 0 ELSE len * size

\* deserialize_slice::<T>: len, bytes = len * size_of::<T>() (a panic on
\* overflow where overflow checks are compiled in), pad_align_and_check, then
\* backend.data[..bytes].align_to::<T>(), which panics on a short slice and
\* gives bytes / size_of::<T>() elements
deserialize_slice(elemSize, base, data, pos) ==
    LET l == impl_prim("usize", base, data, pos)
    IN IF l.st # "Ok" THEN l
       ELSE IF mul_overflows(Val(l), elemSize) /\ build = "dev" THEN Panic(l.pos)
       ELSE LET bytes == wrapping_mul(Val(l), elemSize)
                a == pad_align_and_check(base, data, l.pos, elemSize)
            IN IF a.st # "Ok" THEN a
               ELSE IF a.pos + bytes > Len(data) THEN Panic(a.pos)
               ELSE Ok([i \in 1..(bytes \div elemSize) |->
                          from_ne_bytes(SubSeq(data, a.pos + (i - 1) * elemSize + 1,
                                               a.pos + i * elemSize))],
                       a.pos + bytes)

\* String::_deserialize_full_copy_inner: deserialize_slice, then
\* String::from_utf8(..).unwrap()
string_full_copy(base, data, pos) ==
    LET r == deserialize_slice(1, base, data, pos)
    IN IF r.st # "Ok" THEN r
       ELSE IF ~is_utf8(Val(r)) THEN Panic(r.pos) ELSE r

\* check_magic without the MAGIC_REV arm
check_magic_noRev(magic) ==
    IF magic = MAGIC THEN NoError ELSE MagicCookieError(magic)

\* check_header, the match on the magic cookie
check_magic(magic) ==
    IF magic = MAGIC THEN NoError
    ELSE IF magic = MAGIC_REV THEN EndiannessError
    ELSE MagicCookieError(magic)

\* check_header, the test of the major version
check_major(major) ==
    IF major # VERSION_MAJOR THEN MajorVersionMismatch(major) ELSE NoError

\* check_minor rejecting every minor version but the library's
check_minor_exact(minor) ==
    IF minor # VERSION_MINOR THEN MinorVersionMismatch(minor) ELSE NoError

\* check_header, the test of the minor version
check_minor(minor) ==
    IF minor > VERSION_MINOR THEN MinorVersionMismatch(minor) ELSE NoError

\* check_usize accepting a narrower pointer width
check_usize_narrower(usize_size) ==
    IF usize_size > USIZE_BYTES THEN UsizeSizeMismatch(usize_size) ELSE NoError

\* check_header, the test of the pointer width
check_usize(usize_size) ==
    IF usize_size # USIZE_BYTES THEN UsizeSizeMismatch(usize_size) ELSE NoError

\* check_hashes testing the representation hash first
check_hashes_reprFirst(type_hash_, type_repr_hash_, stream_name, self_hash, self_repr_hash, self_name) ==
    IF type_repr_hash_ # self_repr_hash
    THEN WrongTypeReprHash(self_name, self_repr_hash, stream_name, type_repr_hash_)
    ELSE IF type_hash_ # self_hash
    THEN WrongTypeHash(self_name, self_hash, stream_name, type_hash_)
    ELSE NoError

\* check_header, the two tests of the hashes, in their order
check_hashes(type_hash_, type_repr_hash_, stream_name, self_hash, self_repr_hash, self_name) ==
    IF type_hash_ # self_hash
    THEN WrongTypeHash(self_name, self_hash, stream_name, type_hash_)
    ELSE IF type_repr_hash_ # self_repr_hash
    THEN WrongTypeReprHash(self_name, self_repr_hash, stream_name, type_repr_hash_)
    ELSE NoError

\* the value a failed step leaves: the error or panic of r, or the error e of
\* a failed test, with the offsets rd at which fields were read so far
Stop(r, rd) == [st |-> r.st, err |-> r.err, pos |-> r.pos, rd |-> rd]
Fail(e, pos, rd) == [st |-> "Err", err |-> e, pos |-> pos, rd |-> rd]

\* check_header(backend, self_hash, self_repr_hash, self_name): st is Ok, Err
\* or Panic, pos the position of the backend, rd the offset at which each
\* field was read
check_header(base, data, self_hash, self_repr_hash, self_name) ==
    LET magic == word_full_copy(data, 0)
        rd1 == [MAGIC |-> 0]
    IN IF magic.st # "Ok" THEN Stop(magic, rd1)
    ELSE IF check_magic(Val(magic)) # NoError
         THEN Fail(check_magic(Val(magic)), magic.pos, rd1)
    ELSE
    LET major == prim_full_copy("u16", data, magic.pos)
        rd2 == rd1 @@ [VERSION_MAJOR |-> magic.pos]
    IN IF major.st # "Ok" THEN Stop(major, rd2)
    ELSE IF check_major(Val(major)) # NoError
         THEN Fail(check_major(Val(major)), major.pos, rd2)
    ELSE
    LET minor == prim_full_copy("u16", data, major.pos)
        rd3 == rd2 @@ [VERSION_MINOR |-> major.pos]
    IN IF minor.st # "Ok" THEN Stop(minor, rd3)
    ELSE IF check_minor(Val(minor)) # NoError
         THEN Fail(check_minor(Val(minor)), minor.pos, rd3)
    ELSE
    LET usize_size == prim_full_copy("u8", data, minor.pos)
        rd4 == rd3 @@ [USIZE_SIZE |-> minor.pos]
    IN IF usize_size.st # "Ok" THEN Stop(usize_size, rd4)
    ELSE IF check_usize(Val(usize_size)) # NoError
         THEN Fail(check_usize(Val(usize_size)), usize_size.pos, rd4)
    ELSE
    LET th == word_full_copy(data, usize_size.pos)
        rd5 == rd4 @@ [TYPE_HASH |-> usize_size.pos]
    IN IF th.st # "Ok" THEN Stop(th, rd5)
    ELSE
    LET trh == word_full_copy(data, th.pos)
        rd6 == rd5 @@ [TYPE_REPR_HASH |-> th.pos]
    IN IF trh.st # "Ok" THEN Stop(trh, rd6)
    ELSE
    LET tn == string_full_copy(base, data, trh.pos)
        rd7 == rd6 @@ [TYPE_NAME |-> trh.pos]
    IN IF tn.st # "Ok" THEN Stop(tn, rd7)
    ELSE
    LET e == check_hashes(Val(th), Val(trh), Val(tn), self_hash, self_repr_hash, self_name)
    IN IF e # NoError THEN Fail(e, tn.pos, rd7)
       ELSE [st |-> "Ok", err |-> NoError, pos |-> tn.pos, rd |-> rd7]

(* -------------------------------------------------------------- the body *)

\* deserialize_vec_full: len, Vec::with_capacity(len), then len elements read
\* one by one with T::_deserialize_full_copy_inner
RECURSIVE vec_full_loop(_, _, _, _, _, _)
vec_full_loop(n, todo, acc, base, data, pos) ==
    IF todo = 0 THEN Ok(acc, pos)
    ELSE LET e == impl_prim(n, base, data, pos)
         IN IF e.st # "Ok" THEN e
            ELSE vec_full_loop(n, todo - 1, Append(acc, Val(e)), base, data, e.pos)

deserialize_vec_full(n, base, data, pos) ==
    LET l == impl_prim("usize", base, data, pos)
    IN IF l.st # "Ok" THEN l
       ELSE IF Val(l) >= Huge THEN Panic(l.pos)
       ELSE vec_full_loop(n, Val(l), <<>>, base, data, l.pos)

\* the offset of the i-th field of the struct t in its memory image, as
\* repr(C) lays it out
RECURSIVE FieldOffset(_, _)
FieldOffset(t, i) ==
    LET prev == IF i = 1 THEN 0
                ELSE FieldOffset(t, i - 1) + SizeOf(t.fields[i - 1].ty)
    IN prev + pad_align_to(prev, AlignOf(t.fields[i].ty))

\* the memory image of the value v of a zero-copy struct t: size_of::<Self>()
\* bytes, every field at its offset, zeros in the padding
memory_image(t, v) ==
    [j \in 1..SizeOf(t) |->
        LET at == {i \in 1..Len(t.fields) :
                      /\ FieldOffset(t, i) < j
                      /\ j <= FieldOffset(t, i) + SizeOf(t.fields[i].ty)}
        IN IF at = {} THEN 0
           ELSE LET i == CHOOSE i \in at : TRUE
                IN to_ne_bytes(v[i], SizeOf(t.fields[i].ty))[j - FieldOffset(t, i)]]

\* <#fields_types>::_deserialize_full_copy_inner(backend) of a field of a
\* derived struct, on a Cursor
field_full_copy(ty, base, data, pos) ==
    CASE ty.k = "prim" -> impl_prim(ty.name, base, data, pos)
      [] ty.k = "Vec" -> deserialize_vec_full(ty.of.name, base, data, pos)

\* <#fields_types>::_deserialize_eps_copy_inner(backend) of a field of a
\* derived struct, on a Cursor: a Vec of zero-copy elements is
\* deserialize_slice, a primitive delegates to its full copy
field_eps_copy(ty, base, data, pos) ==
    CASE ty.k = "prim" -> impl_prim(ty.name, base, data, pos)
      [] ty.k = "Vec" -> deserialize_slice(PrimSize(ty.of.name), base, data, pos)

\* what a field of type ty holds after it was read with method m: a
\* primitive is held by value; a Vec is owned after a full copy and is a
\* slice borrowed from the input after an eps copy
view_of(ty, m) ==
    CASE ty.k = "prim" -> "value"
      [] ty.k = "Vec" -> IF m = "eps" THEN "borrowed" ELSE "owned"

\* #methods with every field read by _deserialize_eps_copy_inner
des_method_allEps(f) == "eps"

\* #methods: _deserialize_eps_copy_inner for a field whose declared type is
\* a type parameter of the struct, _deserialize_full_copy_inner for the others
des_method(f) == IF f.generic THEN "eps" ELSE "full"

\* des_order with the fields read last to first
des_order_reversed(t) == [i \in 1..Len(t.fields) |-> Len(t.fields) + 1 - i]

\* the order in which the derived deserializers read the fields: the
\* repetition #( let (#fields, backend) = ...(backend)?; )* over the fields
\* as declared
des_order(t) == [i \in 1..Len(t.fields) |-> i]

\* <#fields_types>::#methods(backend) of the field f, read with method meth
field_read(meth, f, base, data, pos) ==
    IF meth = "eps" THEN field_eps_copy(f.ty, base, data, pos)
    ELSE field_full_copy(f.ty, base, data, pos)

\* the entry of the trace of reads for the field f read at pos with method
\* meth and result r
read_entry(f, pos, meth, r) ==
    [field |-> f.name, at |-> pos, method |-> meth,
     view |-> view_of(f.ty, meth), st |-> r.st]

\* the result r of the read of one field followed by the reads rest of the
\* fields after it
read_then(rd, r, rest) ==
    [res |-> IF rest.res.st = "Ok"
             THEN Ok(<<Val(r)>> \o Val(rest.res), rest.res.pos)
             ELSE rest.res,
     reads |-> <<rd>> \o rest.reads]

RECURSIVE field_reads(_, _, _, _, _, _)

\* let (#fields, backend) = <#fields_types>::#methods(backend)?; the ? ends
\* the reads at the first that fails
read_next(m, t, base, data, k, rd, r) ==
    IF r.st # "Ok" THEN [res |-> r, reads |-> <<rd>>]
    ELSE read_then(rd, r, field_reads(m, t, base, data, k + 1, r.pos))

\* the field f, read at pos with method meth
read_one(m, t, base, data, k, pos, f, meth) ==
    read_next(m, t, base, data, k,
              read_entry(f, pos, meth, field_read(meth, f, base, data, pos)),
              field_read(meth, f, base, data, pos))

\* the reads of the fields of a derived struct from the k-th of des_order
\* on, in mode m: the result (the values in the order they were read) and,
\* for every read made, the field, the position of the backend before it,
\* the method, what the field holds and how it ended
field_reads(m, t, base, data, k, pos) ==
    IF k > Len(t.fields) THEN [res |-> Ok(<<>>, pos), reads |-> <<>>]
    ELSE read_one(m, t, base, data, k, pos, t.fields[des_order(t)[k]],
                  IF m = "eps" THEN des_method(t.fields[des_order(t)[k]])
                  ELSE "full")

\* Ok((#name{ #(#fields),* }, backend)): the struct built from the values
\* read, every value in the field it was read for
build_struct(t, r) ==
    IF r.st # "Ok" THEN r
    ELSE Ok([i \in 1..Len(t.fields) |->
                Val(r)[CHOOSE k \in 1..Len(t.fields) : des_order(t)[k] = i]],
            r.pos)

\* the derived _deserialize_full_copy_inner: for a zero-copy struct
\* Self::pad_align_and_check first, then the fields one by one
struct_full_copy(t, base, data, pos) ==
    LET a == IF t.zero_copy THEN pad_align_and_check(base, data, pos, AlignOf(t))
             ELSE Ok(0, pos)
    IN IF a.st # "Ok" THEN [res |-> a, reads |-> <<>>]
       ELSE LET fr == field_reads("full", t, base, data, 1, a.pos)
            IN [res |-> build_struct(t, fr.res), reads |-> fr.reads]

\* the derived _deserialize_eps_copy_inner. Zero-copy struct: bytes =
\* size_of::<Self>(), Self::pad_align_and_check, backend.data[..bytes]
\* (which panics on a short slice) reinterpreted as &Self, skip(bytes);
\* the fields are where the memory image has them. Any other struct: the
\* fields one by one, each with its method
struct_eps_copy(t, base, data, pos) ==
    IF t.zero_copy
    THEN LET bytes == SizeOf(t)
             a == pad_align_and_check(base, data, pos, AlignOf(t))
         IN IF a.st # "Ok" THEN [res |-> a, reads |-> <<>>]
            ELSE IF a.pos + bytes > Len(data)
            THEN [res |-> Panic(a.pos), reads |-> <<>>]
            ELSE [res |-> Ok([i \in 1..Len(t.fields) |->
                                from_ne_bytes(SubSeq(data,
                                    a.pos + FieldOffset(t, i) + 1,
                                    a.pos + FieldOffset(t, i) + SizeOf(t.fields[i].ty)))],
                             a.pos + bytes),
                  reads |-> [i \in 1..Len(t.fields) |->
                               [field |-> t.fields[i].name,
                                at |-> a.pos + FieldOffset(t, i),
                                method |-> "zero", view |-> "value",
                                st |-> "Ok"]]]
    ELSE LET fr == field_reads("eps", t, base, data, 1, pos)
         IN [res |-> build_struct(t, fr.res), reads |-> fr.reads]

\* DeserializeInner::_deserialize_full_copy_inner of a built-in type t (the
\* derived one of a struct is struct_full_copy)
_deserialize_full_copy_inner(t, base, data, pos) ==
    CASE t.k = "prim" /\ t.name = "bool" ->
            LET r == prim_full_copy("u8", data, pos)
            IN IF r.st # "Ok" THEN r ELSE Ok(Val(r) # 0, r.pos)
      [] t.k = "prim" /\ t.name = "char" ->
            char_from_u32(prim_full_copy("u32", data, pos))
      [] t.k = "prim" /\ t.name \notin {"bool", "char"} ->
            prim_full_copy(t.name, data, pos)
      [] t.k = "Option" ->
            LET tag == prim_full_copy("u8", data, pos)
            IN IF tag.st # "Ok" THEN tag
               ELSE IF Val(tag) = 0 THEN Ok(<<>>, tag.pos)
               ELSE IF Val(tag) = 1
               THEN LET e == prim_full_copy(t.of.name, data, tag.pos)
                    IN IF e.st # "Ok" THEN e ELSE Ok(<<Val(e)>>, e.pos)
               ELSE Err(InvalidTag(Val(tag)), tag.pos)
      [] t.k = "Vec" -> deserialize_vec_full(t.of.name, base, data, pos)
      [] t.k = "String" -> string_full_copy(base, data, pos)
      [] t.k = "unit" -> Ok("()", pos)
      [] t.k = "PhantomData" -> Ok("PhantomData", pos)

\* DeserializeInner::_deserialize_eps_copy_inner of a built-in type t (the
\* derived one of a struct is struct_eps_copy); a borrowed view
\* is represented by the values it dereferences to
_deserialize_eps_copy_inner(t, base, data, pos) ==
    CASE t.k = "prim" /\ t.name = "bool" ->
            IF pos + 1 > Len(data) THEN Panic(pos)
            ELSE Ok(data[pos + 1] # 0, pos + 1)
      [] t.k = "prim" /\ t.name = "char" ->
            char_from_u32(prim_eps_copy("u32", data, pos))
      [] t.k = "prim" /\ t.name \notin {"bool", "char"} ->
            prim_eps_copy(t.name, data, pos)
      [] t.k = "Option" ->
            LET tag == prim_full_copy("u8", data, pos)
            IN IF tag.st # "Ok" THEN tag
               ELSE IF Val(tag) = 0 THEN Ok(<<>>, tag.pos)
               ELSE IF Val(tag) = 1
               THEN LET e == prim_eps_copy(t.of.name, data, tag.pos)
                    IN IF e.st # "Ok" THEN e ELSE Ok(<<Val(e)>>, e.pos)
               ELSE IF tag.pos + 1 > Len(data) THEN Panic(tag.pos)
               ELSE Err(InvalidTag(data[tag.pos + 1]), tag.pos)
      [] t.k = "Vec" -> deserialize_slice(PrimSize(t.of.name), base, data, pos)
      [] t.k = "String" -> deserialize_slice(1, base, data, pos)
      [] t.k = "unit" -> Ok("()", pos)
      [] t.k = "PhantomData" -> Ok("PhantomData", pos)

(* ----------------------------------------------------------------- state *)

\* SerializeError::WriteError
WriteError == [kind |-> "WriteError"]

\* the sinks a value is serialized to: one that takes every byte (a Vec), a
\* fixed slice of lim bytes, whose write takes what still fits and reports
\* that count, and one whose write fails, taking nothing, once the bytes
\* offered would pass lim
SliceCaps == {10, 50}
FailAts == {0, 12}
Sinks == {[kind |-> "all", lim |-> 0]}
         \cup {[kind |-> "slice", lim |-> c] : c \in SliceCaps}
         \cup {[kind |-> "fail", lim |-> l] : l \in FailAts}

Min(a, b) == IF a < b THEN a ELSE b

\* WriteNoStd::write of the sink k that holds content: Ok(n) with the n bytes
\* taken, or Err(WriteError)
sink_write(k, content, buf) ==
    CASE k.kind = "all" -> [st |-> "Ok", n |-> Len(buf)]
      [] k.kind = "slice" ->
            [st |-> "Ok", n |-> Min(Len(buf), k.lim - Min(k.lim, Len(content)))]
      [] k.kind = "fail" ->
            IF Len(content) + Len(buf) > k.lim THEN [st |-> "Err", n |-> 0]
            ELSE [st |-> "Ok", n |-> Len(buf)]

\* WriteWithPos::write adding the bytes offered, not the bytes taken
write_pos_offered(pos, res, buf) == pos + Len(buf)

\* WriteWithPos::write: self.pos += res
write_pos(pos, res, buf) == pos + res

VARIABLES
    wT, wV,     \* the type and the value given to serialize
    wpc,        \* the next field serialize_on_field_write adds: "idle", a
                \* header field, "ROOT" or "done"
    sink,       \* the bytes the backend has received
    wpos,       \* WriteWithPos.pos
    schema,     \* for every field added: the offset and size of its bytes
    sinkK,      \* the sink serialize was given
    accepted,   \* the sum of the counts the sink reported as taken
    wret,       \* what serialize returned: Ok(n) or Err(WriteError)
    wfields,    \* for every field of a struct at the root: the offset and
                \* size of its bytes
    warnings,   \* the types named by the warnings printed so far
    runs,       \* how many times serialize was called
    input,      \* the bytes given to the deserializer
    origin,     \* where input comes from: "none", "serialized", "crafted"
    inT, inV,   \* the type and the value input was made from
    base,       \* the address of input[1] modulo 16
    dT, mode,   \* the requested type and "full" or "eps"
    dpc,        \* "Idle", "Start", "HeaderRead", "BodyRead", "Done",
                \* "Failed", "Panicked"
    rpos,       \* the position of the reading backend
    hdr,        \* what check_header returned
    rootAt,     \* the position at which ROOT was read, -1 before
    rfields,    \* for every field of a struct at the root that was read:
                \* the field, the position, the method and what it holds
    result,     \* what the call returned
    file,       \* the contents of the file given to load_mem, load_mmap, mmap
    loader,     \* the load function called, the pointer its allocation
                \* returned, and whether the call is still running
    live,       \* how many backends (heap buffers, mappings) exist
    cases,      \* how many MemCase values the caller holds
    loads       \* how many times a load function was called

wvars == <<wT, wV, wpc, sink, wpos, schema, sinkK, accepted, wret, wfields,
           warnings, runs>>
ivars == <<input, origin, inT, inV, base>>
dvars == <<dT, mode, dpc, rpos, hdr, rootAt, rfields, result>>
lvars == <<file, loader, live, cases, loads>>
vars == <<wT, wV, wpc, sink, wpos, schema, sinkK, accepted, wret, wfields,
          warnings, runs, input, origin, inT, inV, base,
          dT, mode, dpc, rpos, hdr, rootAt, rfields, result,
          file, loader, live, cases, loads, build>>

NoType == [k |-> "none"]
NoHdr == [st |-> "none", err |-> NoError, pos |-> 0, rd |-> <<>>]
NoResult == [st |-> "none", val |-> <<>>, err |-> NoError]

NoRet == [st |-> "none", n |-> 0]
NoLoader == [fn |-> "none", ptr |-> "none", running |-> FALSE]

Init ==
    /\ wT = NoType /\ wV = <<>> /\ wpc = "idle" /\ sink = <<>> /\ wpos = 0
    /\ schema = <<>>
    /\ sinkK = [kind |-> "all", lim |-> 0] /\ accepted = 0 /\ wret = NoRet
    /\ wfields = <<>> /\ warnings = <<>> /\ runs = 0
    /\ input = <<>> /\ origin = "none" /\ inT = NoType /\ inV = <<>> /\ base = 0
    /\ dT = NoType /\ mode = "none" /\ dpc = "Idle" /\ rpos = 0
    /\ hdr = NoHdr /\ rootAt = -1 /\ rfields = <<>> /\ result = NoResult
    /\ file = <<>> /\ loader = NoLoader /\ live = 0 /\ cases = 0 /\ loads = 0
    /\ build \in Builds

(* --------------------------------------------------------- serialization *)

\* WriteWithPos::write: res = self.backend.write(buf)?; self.pos += res;
\* a failed write changes nothing. The result of the call is
\* sink_write(sinkK, sink, bytes).
Write(bytes) ==
    \E res \in {sink_write(sinkK, sink, bytes)} :
        IF res.st = "Ok"
        THEN /\ sink' = sink \o SubSeq(bytes, 1, res.n)
             /\ accepted' = accepted + res.n
             /\ wpos' = write_pos(wpos, res.n, bytes)
        ELSE UNCHANGED <<sink, accepted, wpos>>

\* whether the write of bytes succeeds
WriteOk(bytes) == sink_write(sinkK, sink, bytes).st = "Ok"

\* Serialize::serialize: WriteWithPos::new(backend), pos = 0
SerializeBegin ==
    /\ wpc = "idle" /\ origin = "none"
    /\ \E t \in Types \cup DerivedTypes : \E v \in ValuesOf(t) : wT' = t /\ wV' = v
    /\ sinkK' \in Sinks
    /\ wpc' = "MAGIC" /\ sink' = <<>> /\ wpos' = 0 /\ schema' = <<>>
    /\ accepted' = 0 /\ wret' = NoRet /\ wfields' = <<>> /\ runs' = 1
    /\ UNCHANGED <<warnings, ivars, dvars, lvars>>
    /\ UNCHANGED build

\* the same value is serialized once more, to a fresh sink of the same
\* kind, in the same process
SerializeAgain ==
    /\ wpc = "done" /\ origin = "none" /\ runs < MaxRuns
    /\ wpc' = "MAGIC" /\ sink' = <<>> /\ wpos' = 0 /\ schema' = <<>>
    /\ accepted' = 0 /\ wret' = NoRet /\ wfields' = <<>> /\ runs' = runs + 1
    /\ UNCHANGED <<wT, wV, sinkK, warnings, ivars, dvars, lvars>>
    /\ UNCHANGED build

NextField(f) == CASE f = "MAGIC" -> "VERSION_MAJOR"
                  [] f = "VERSION_MAJOR" -> "VERSION_MINOR"
                  [] f = "VERSION_MINOR" -> "USIZE_SIZE"
                  [] f = "USIZE_SIZE" -> "TYPE_HASH"
                  [] f = "TYPE_HASH" -> "TYPE_REPR_HASH"
                  [] f = "TYPE_REPR_HASH" -> "TYPE_NAME"
                  [] f = "TYPE_NAME" -> "ROOT"

\* serialize_on_field_write: one backend.add_field of the header
AddField ==
    /\ wpc \in {HeaderFields[i] : i \in 1..Len(HeaderFields)}
    /\ \E bytes \in {HeaderFieldBytes(wpc, wT, wpos)} :
          /\ Write(bytes)
          /\ IF WriteOk(bytes)
             THEN /\ schema' = Append(schema, [field |-> wpc, offset |-> wpos,
                                               size |-> Len(bytes)])
                  /\ wpc' = NextField(wpc)
                  /\ wret' = wret
             ELSE /\ schema' = schema
                  /\ wpc' = "failed"
                  /\ wret' = [st |-> "Err", n |-> 0]
    /\ UNCHANGED <<wT, wV, sinkK, wfields, warnings, runs, ivars, dvars, lvars>>
    /\ UNCHANGED build

\* the fields of a struct at the root written at pos: name, offset, size
root_fields(t, v, pos) ==
    IF t.k # "struct" THEN <<>>
    ELSE LET ws == field_writes(t, v, 1, pos + Len(derive_padding(t, pos)))
         IN [i \in 1..Len(ws) |-> [field |-> ws[i].field, offset |-> ws[i].offset,
                                    size |-> Len(ws[i].bytes)]]

\* serialize_on_field_write: backend.add_field_align("ROOT", self), flush
AddRoot ==
    /\ wpc = "ROOT"
    /\ IF ser_panics(wT)
       THEN /\ Write(add_padding_to_align(wpos, AlignOf(wT)))
            /\ wpc' = "panicked"
            /\ wret' = [st |-> "Panic", n |-> 0]
            /\ UNCHANGED <<schema, wfields, warnings>>
       ELSE \E bytes \in {add_field_align(wT, wV, wpos)},
               pad \in {pad_align_to(wpos, AlignOf(wT))} :
               /\ Write(bytes)
               /\ warnings' = warnings \o ser_warnings(wT)
               /\ IF WriteOk(bytes)
                  THEN /\ schema' = Append(schema, [field |-> "ROOT",
                                                    offset |-> wpos + pad,
                                                    size |-> Len(bytes) - pad])
                       /\ wfields' = root_fields(wT, wV, wpos + pad)
                       /\ wpc' = "done"
                       /\ wret' = [st |-> "Ok", n |-> wpos']
                  ELSE /\ schema' = schema
                       /\ wfields' = wfields
                       /\ wpc' = "failed"
                       /\ wret' = [st |-> "Err", n |-> 0]
    /\ UNCHANGED <<wT, wV, sinkK, runs, ivars, dvars, lvars>>
    /\ UNCHANGED build

(* ------------------------------------------------------------ the inputs *)

\* the address of the first byte of the slice, modulo 16
Bases == {0, 4}

\* the serialized bytes are handed to the deserializer
LoadSerialized ==
    /\ wpc = "done" /\ origin = "none" /\ sinkK.kind = "all"
    /\ input' = sink /\ origin' = "serialized" /\ inT' = wT /\ inV' = wV
    /\ base' \in Bases
    /\ UNCHANGED <<wvars, dvars, lvars>>
    /\ UNCHANGED build

\* a magic cookie that is neither MAGIC nor MAGIC_REV
OtherMagic == [MAGIC EXCEPT ![1] = 0]

\* the representation hash of t on a platform that lays t out differently
ForeignRepr(t) == Xxh3(type_repr_hash(t) \o <<1>>)

\* a stream laid out field by field as check_header reads it, with the header
\* values chosen freely
CraftStream(magic, major, minor, usz, t, foreign, root) ==
    LET h == magic \o to_ne_bytes(major, 2) \o to_ne_bytes(minor, 2)
             \o to_ne_bytes(usz, 1) \o Xxh3(type_hash(t))
             \o (IF foreign THEN ForeignRepr(t) ELSE Xxh3(type_repr_hash(t)))
             \o write_slice_zero(1, type_name(t), 29)
    IN IF root.raw THEN h \o root.bytes
       ELSE h \o add_field_align(t, root.v, Len(h))

Magics == {MAGIC, MAGIC_REV, OtherMagic}
Versions == 0..MaxVersion
UsizeSizes == {4, 8}

\* the value a crafted stream of type t carries
CraftValue(t) == CASE t.k = "prim" -> IF t.name = "bool" THEN TRUE ELSE 1
                   [] t.k = "Option" -> <<1>>
                   [] t.k = "Vec" -> <<1>>
                   [] t.k = "String" -> <<65>>
                   [] t.k = "unit" -> "()"
                   [] t.k = "PhantomData" -> "PhantomData"

\* the tag bytes a stream from elsewhere may hold where an Option starts
Tags == {0, 1, 2}

\* the byte that follows the tag of such an Option (the low byte of its
\* payload)
Payload == 7

\* a u32 that is no char: the first surrogate, 0xD800
Surrogate == 55296

\* a byte that no well-formed UTF-8 sequence holds
NotUtf8 == 255

\* the length prefixes a stream from elsewhere may hold before the one
\* element of its sequence
Lengths == {2, Quarter}

\* the roots of a crafted stream of type t: the value CraftValue(t) written
\* as add_field_align writes it, or, for an Option, a tag byte and a payload
\* placed where the reader starts to read the root, or, for a Vec or a
\* String, a length prefix at the next multiple of 8 and one element, or,
\* for a char, a u32 that is no char, or, for a String, a byte that is not
\* UTF-8
CraftRoots(t) ==
    {[raw |-> FALSE, v |-> CraftValue(t), bytes |-> <<>>]}
    \cup (IF t = Prim("char")
         THEN {[raw |-> TRUE, v |-> Surrogate, bytes |-> to_ne_bytes(Surrogate, 4)]}
         ELSE {})
    \cup (IF t.k = "String"
         THEN LET hlen == 29 + Len(write_slice_zero(1, type_name(t), 29))
              IN {[raw |-> TRUE, v |-> <<NotUtf8>>,
                   bytes |-> add_padding_to_align(hlen, 8) \o to_ne_bytes(1, 8)
                             \o <<NotUtf8>>]}
         ELSE {})
    \cup (IF t.k \in {"Vec", "String"}
         THEN LET hlen == 29 + Len(write_slice_zero(1, type_name(t), 29))
              IN {[raw |-> TRUE, v |-> CraftValue(t),
                   bytes |-> add_padding_to_align(hlen, 8) \o to_ne_bytes(len, 8)
                             \o to_ne_bytes(1, IF t.k = "Vec"
                                               THEN PrimSize(t.of.name) ELSE 1)]
                  : len \in Lengths}
         ELSE {})
    \cup (IF t.k = "Option"
         THEN {[raw |-> TRUE, v |-> IF tag = 0 THEN <<>> ELSE <<Payload>>,
                bytes |-> <<tag>> \o to_ne_bytes(Payload, PrimSize(t.of.name))]
               : tag \in Tags}
         ELSE {})

\* any bytes may be given to the deserializer: here a stream from elsewhere
LoadCrafted ==
    /\ wpc = "idle" /\ origin = "none"
    /\ \E magic \in Magics, major \in Versions, minor \in Versions,
          usz \in UsizeSizes, t \in Types, foreign \in BOOLEAN :
          \E root \in CraftRoots(t) :
          /\ input' = CraftStream(magic, major, minor, usz, t, foreign, root)
          /\ inT' = t /\ inV' = root.v
    /\ origin' = "crafted" /\ base' \in Bases
    /\ UNCHANGED <<wvars, dvars, lvars>>
    /\ UNCHANGED build

\* the roots of a crafted stream of a derived struct t: its value written as
\* add_field_align writes it, or, for a zero-copy struct, the memory image of
\* the value placed at the next multiple of align_of::<Self>()
StructRoots(t) ==
    {[raw |-> FALSE, v |-> v, bytes |-> <<>>] : v \in ValuesOf(t)}
    \cup IF t.zero_copy
         THEN LET hlen == 29 + Len(write_slice_zero(1, type_name(t), 29))
              IN {[raw |-> TRUE, v |-> v,
                   bytes |-> add_padding_to_align(hlen, AlignOf(t))
                             \o memory_image(t, v)] : v \in ValuesOf(t)}
         ELSE {}

\* a stream from elsewhere that carries a derived struct, its header the one
\* check_header accepts
LoadCraftedStruct ==
    /\ wpc = "idle" /\ origin = "none"
    /\ \E t \in {d \in DerivedTypes : ~ser_panics(d)} :
          \E root \in StructRoots(t) :
          /\ input' = CraftStream(MAGIC, VERSION_MAJOR, VERSION_MINOR,
                                  USIZE_BYTES, t, FALSE, root)
          /\ inT' = t /\ inV' = root.v
    /\ origin' = "crafted" /\ base' \in Bases
    /\ UNCHANGED <<wvars, dvars, lvars>>
    /\ UNCHANGED build

\* the lengths a stream may be cut to
Cuts == {0, 7, 12, 16, 30}

\* the source ends early
Truncate ==
    /\ origin = "crafted" /\ dpc = "Idle"
    /\ \E n \in Cuts \cup {Len(input) - 1} :
          n < Len(input) /\ input' = SubSeq(input, 1, n)
    /\ origin' = "truncated"
    /\ UNCHANGED <<wvars, inT, inV, base, dvars, lvars>>
    /\ UNCHANGED build

(* ------------------------------------------------------- deserialization *)

\* deserialize_full_copy / deserialize_eps_copy: the backend is created
DeserializeBegin ==
    /\ origin # "none" /\ dpc = "Idle"
    /\ dT' \in Types \cup {inT}
    /\ mode' \in IF base = 0 THEN {"full", "eps"} ELSE {"eps"}
    /\ dpc' = "Start" /\ rpos' = 0
    /\ UNCHANGED <<wvars, ivars, hdr, rootAt, rfields, result, lvars>>
    /\ UNCHANGED build

\* after_header with the error of check_header dropped
after_header_ignoreErr(h) == CASE h.st = "Panic" -> "Panicked"
                               [] OTHER -> "HeaderRead"

\* the ? on the result of check_header
after_header(h) == CASE h.st = "Ok" -> "HeaderRead"
                     [] h.st = "Err" -> "Failed"
                     [] h.st = "Panic" -> "Panicked"

\* backend = check_header(backend, self_hash, self_repr_hash, type_name)?
CheckHeader ==
    /\ dpc = "Start"
    /\ \E h \in {check_header(base, input, Xxh3(type_hash(dT)),
                              Xxh3(type_repr_hash(dT)), type_name(dT))} :
          /\ hdr' = h
          /\ rpos' = h.pos
          /\ dpc' = after_header(h)
          /\ result' = IF after_header(h) = "HeaderRead" THEN result
                       ELSE [st |-> h.st, val |-> <<>>, err |-> h.err]
    /\ UNCHANGED <<wvars, ivars, dT, mode, rootAt, rfields, lvars>>
    /\ UNCHANGED build

\* Self::_deserialize_full_copy_inner(backend) or
\* Self::_deserialize_eps_copy_inner(backend)
deserialize_root(m, t, b, data, pos) ==
    IF m = "full" THEN _deserialize_full_copy_inner(t, b, data, pos)
    ELSE _deserialize_eps_copy_inner(t, b, data, pos)

\* Self::_deserialize_full_copy_inner(backend) or
\* Self::_deserialize_eps_copy_inner(backend) at the root, with the reads of
\* the fields the derived deserializer of a struct makes
root_result(m, t, b, data, pos) ==
    IF t.k # "struct"
    THEN [res |-> deserialize_root(m, t, b, data, pos), reads |-> <<>>]
    ELSE IF m = "full" THEN struct_full_copy(t, b, data, pos)
    ELSE struct_eps_copy(t, b, data, pos)

\* let (res, _) = Self::_deserialize_..._inner(backend)?
DeserializeBody ==
    /\ dpc = "HeaderRead"
    /\ \E rr \in {root_result(mode, dT, base, input, rpos)} :
          /\ rootAt' = rpos
          /\ rfields' = rr.reads
          /\ rpos' = rr.res.pos
          /\ dpc' = CASE rr.res.st = "Ok" -> "BodyRead"
                      [] rr.res.st = "Err" -> "Failed"
                      [] rr.res.st = "Panic" -> "Panicked"
          /\ result' = IF rr.res.st = "Ok"
                       THEN [st |-> "pending", val |-> rr.res.val, err |-> NoError]
                       ELSE [st |-> rr.res.st, val |-> <<>>, err |-> rr.res.err]
    /\ UNCHANGED <<wvars, ivars, dT, mode, hdr, lvars>>
    /\ UNCHANGED build

\* Ok(res)
Return ==
    /\ dpc = "BodyRead"
    /\ dpc' = "Done"
    /\ result' = [result EXCEPT !.st = "Ok"]
    /\ UNCHANGED <<wvars, ivars, dT, mode, rpos, hdr, rootAt, rfields, lvars>>
    /\ UNCHANGED build


(* ------------------------------------------------------------ the loaders *)

\* load_mem without the rounding up of the length
mem_len_exact(file_len) == file_len

\* load_mem: let len = file_len + crate::pad_align_to(file_len, 16)
mem_len(file_len) == file_len + pad_align_to(file_len, 16)

\* load_mmap: capacity * 8 with capacity = (file_len + 7) / 8
mmap_len(file_len) == ((file_len + 7) \div 8) * 8

\* the load functions
Loaders == {"load_mem", "load_mmap", "mmap"}

\* the bytes of the backend a load function creates from the contents of the
\* file: load_mem and load_mmap read the file into the first file_len bytes
\* and fill the rest with zeros, mmap maps the file
backend_bytes(fn, contents) ==
    CASE fn = "load_mem" ->
            contents \o Zeros(mem_len(Len(contents)) - Len(contents))
      [] fn = "load_mmap" ->
            contents \o Zeros(mmap_len(Len(contents)) - Len(contents))
      [] fn = "mmap" -> contents

\* what std::alloc::alloc(Layout::from_size_align(len, 16)) returns: a
\* pointer aligned to 16; with len = 0 the call has undefined behaviour and
\* the allocator returns such a pointer or null. A mapping is page aligned.
Pointers(fn, len) ==
    IF fn = "load_mem" /\ len = 0 THEN {"aligned", "null"} ELSE {"aligned"}

\* the address, modulo 16, of the bytes of the backend: an allocation of
\* alignment 16 (or null), or a mapping, which starts at a page boundary
backend_address(fn, ptr) == 0

\* load_mem / load_mmap / mmap up to the call of deserialize_eps_copy: the
\* backend is created, stored in the MemCase that is being built, and
\* Self::deserialize_eps_copy(mem) starts on its bytes. The mapping of an
\* empty file is refused before a backend exists. A file is loaded again
\* with the same function.
Load ==
    /\ origin # "none" /\ base = 0 /\ loads < MaxLoads /\ ~loader.running
    /\ \/ dpc = "Idle" /\ loads = 0
       \/ loads > 0
    /\ \E fn \in Loaders, contents \in {IF loads = 0 THEN input ELSE file} :
          /\ loads > 0 => fn = loader.fn
          /\ fn # "load_mem" => contents # <<>>
          /\ file' = contents
          /\ input' = backend_bytes(fn, contents)
          /\ \E ptr \in Pointers(fn, Len(backend_bytes(fn, contents))) :
                /\ loader' = [fn |-> fn, ptr |-> ptr, running |-> TRUE]
                /\ base' = backend_address(fn, ptr)
    /\ live' = live + 1 /\ loads' = loads + 1
    /\ dT' = inT /\ mode' = "eps" /\ dpc' = "Start" /\ rpos' = 0
    /\ hdr' = NoHdr /\ rootAt' = -1 /\ rfields' = <<>> /\ result' = NoResult
    /\ UNCHANGED <<wvars, origin, inT, inV, cases>>
    /\ UNCHANGED build

\* the end of load_mem / load_mmap / mmap: Ok(uninit.assume_init()) hands
\* the MemCase with its backend to the caller; the ? on the result of
\* deserialize_eps_copy returns the error and leaves the MaybeUninit, which
\* drops nothing, with the backend stored in it
LoadReturn ==
    /\ loader.running /\ dpc \in {"Done", "Failed", "Panicked"}
    /\ cases' = IF dpc = "Done" THEN cases + 1 ELSE cases
    /\ loader' = [loader EXCEPT !.running = FALSE]
    /\ UNCHANGED <<wvars, ivars, dvars, file, live, loads>>
    /\ UNCHANGED build

\* the caller drops a MemCase: the value and its backend go together
DropCase ==
    /\ ~loader.running /\ cases > 0
    /\ cases' = cases - 1 /\ live' = live - 1
    /\ UNCHANGED <<wvars, ivars, dvars, file, loader, loads>>
    /\ UNCHANGED build

Next ==
    \/ SerializeBegin
    \/ SerializeAgain
    \/ AddField
    \/ AddRoot
    \/ LoadSerialized
    \/ LoadCrafted
    \/ LoadCraftedStruct
    \/ Truncate
    \/ DeserializeBegin
    \/ CheckHeader
    \/ DeserializeBody
    \/ Return
    \/ Load
    \/ LoadReturn
    \/ DropCase

Spec == Init /\ [][Next]_vars

(* ---------------------------------------------------------------- claims *)

Finished == dpc \in {"Done", "Failed", "Panicked"}
HeaderChecked == hdr.st # "none"

\* the bytes lo+1..hi of the input, or <<>> when the input is shorter
Field(lo, hi) == IF hi <= Len(input) THEN SubSeq(input, lo + 1, hi) ELSE <<>>

\* the entry of the schema for field f
Entry(f) == schema[CHOOSE i \in 1..Len(schema) : schema[i].field = f]

\* C1: a value serialized and then read back with deserialize_full_copy as
\* its own type comes back: the call succeeds and returns an equal value.
C1_FullCopyRoundTrip ==
    (origin = "serialized" /\ mode = "full" /\ dT = inT /\ Finished)
        => (dpc = "Done" /\ result.st = "Ok" /\ result.val = <<inV>>)

\* C2: a value serialized into an aligned slice and then read back with
\* deserialize_eps_copy as its own type gives a view equal to the value.
C2_EpsCopyRoundTrip ==
    (origin = "serialized" /\ mode = "eps" /\ base = 0 /\ dT = inT /\ Finished)
        => (dpc = "Done" /\ result.st = "Ok" /\ result.val = <<inV>>)

\* C3: on a stream produced by serialize_on_field_write, check_header reads
\* every header field, and the deserializer reads ROOT, at the offset at which
\* the writer wrote it.
C3_PositionAgreement ==
    (origin = "serialized" /\ HeaderChecked)
        => /\ \A f \in DOMAIN hdr.rd : hdr.rd[f] = Entry(f).offset
           /\ rootAt # -1 => rootAt = Entry("ROOT").offset

\* C4: a serialized stream starts with MAGIC at 0 (8 bytes), VERSION_MAJOR
\* at 8 (2 bytes), VERSION_MINOR at 10 (2 bytes), USIZE_BYTES at 12 taking
\* exactly one byte, then TYPE_HASH, TYPE_REPR_HASH, the type name and ROOT.
C4_HeaderLayout ==
    (wpc = "done" /\ sinkK.kind = "all")
        => /\ [i \in 1..Len(schema) |-> schema[i].field] = HeaderFields \o <<"ROOT">>
           /\ Entry("MAGIC").offset = 0 /\ Entry("MAGIC").size = 8
           /\ Entry("VERSION_MAJOR").offset = 8 /\ Entry("VERSION_MAJOR").size = 2
           /\ Entry("VERSION_MINOR").offset = 10 /\ Entry("VERSION_MINOR").size = 2
           /\ Entry("USIZE_SIZE").offset = 12 /\ Entry("USIZE_SIZE").size = 1
           /\ SubSeq(sink, 1, 8) = MAGIC
           /\ sink[13] = USIZE_BYTES

\* C5: the first 64-bit word m of the stream decides three ways: MAGIC lets
\* header checking go on, MAGIC_REV fails with EndiannessError, any other
\* word fails with MagicCookieError(m).
C5_MagicDecision ==
    (HeaderChecked /\ Len(input) >= 8)
        => LET m == Field(0, 8)
           IN /\ m = MAGIC => /\ hdr.err.kind \notin {"EndiannessError", "MagicCookieError"}
                              /\ "VERSION_MAJOR" \in DOMAIN hdr.rd
              /\ m = MAGIC_REV => /\ dpc = "Failed"
                                  /\ result.err = EndiannessError
              /\ m \notin {MAGIC, MAGIC_REV} => /\ dpc = "Failed"
                                                /\ result.err = MagicCookieError(m)

C5_Witness ==
    /\ dpc = "Failed" /\ Field(0, 8) = MAGIC_REV
    /\ result.err.kind = "EndiannessError"

\* the versions found in the stream
StreamMajor == from_ne_bytes(Field(8, 10))
StreamMinor == from_ne_bytes(Field(10, 12))

\* C6: with a valid magic the stream passes the version checks exactly when
\* its major equals the library's and its minor is at most the library's; a
\* different major fails with MajorVersionMismatch(major), an equal major with
\* a larger minor with MinorVersionMismatch(minor).
C6_VersionAcceptance ==
    (HeaderChecked /\ Len(input) >= 12 /\ Field(0, 8) = MAGIC)
        => /\ ("USIZE_SIZE" \in DOMAIN hdr.rd)
                <=> (StreamMajor = VERSION_MAJOR /\ StreamMinor <= VERSION_MINOR)
           /\ StreamMajor # VERSION_MAJOR
                => dpc = "Failed" /\ result.err = MajorVersionMismatch(StreamMajor)
           /\ (StreamMajor = VERSION_MAJOR /\ StreamMinor > VERSION_MINOR)
                => dpc = "Failed" /\ result.err = MinorVersionMismatch(StreamMinor)

C6_Witness ==
    /\ HeaderChecked /\ Len(input) >= 12 /\ Field(0, 8) = MAGIC
    /\ StreamMajor = VERSION_MAJOR /\ StreamMinor < VERSION_MINOR
    /\ "USIZE_SIZE" \in DOMAIN hdr.rd

\* C7: with valid magic and versions, a stream whose pointer width differs
\* from the platform's fails with UsizeSizeMismatch carrying the stream's
\* value, whatever the requested type, and no byte of the body is read.
C7_PointerWidth ==
    (HeaderChecked /\ Len(input) >= 13 /\ Field(0, 8) = MAGIC
       /\ StreamMajor = VERSION_MAJOR /\ StreamMinor <= VERSION_MINOR
       /\ input[13] # USIZE_BYTES)
        => /\ dpc = "Failed"
           /\ result.err = UsizeSizeMismatch(input[13])
           /\ rootAt = -1 /\ rpos = 13

C7_Witness ==
    /\ dpc = "Failed" /\ result.err.kind = "UsizeSizeMismatch"
    /\ dT = Prim("u8") /\ inT = Prim("u8") /\ input[13] = 4

\* C8: a stream serialized from type A and deserialized as a type B with a
\* different type_hash fails with WrongTypeHash, where expected and
\* expected_type_name are the hash and name of A, got and got_type_name
\* those of B.
C8_TypeMismatch ==
    (origin = "serialized" /\ Finished
       /\ Xxh3(type_hash(dT)) # Xxh3(type_hash(inT)))
        => /\ dpc = "Failed"
           /\ result.err = WrongTypeHash(type_name(dT), Xxh3(type_hash(dT)),
                                         type_name(inT), Xxh3(type_hash(inT)))

\* the tag byte of the Option at the root of the input and the position
\* after it
RootTag == input[rootAt + 1]
OptionRootRead ==
    /\ dT.k = "Option" /\ rootAt # -1 /\ rootAt + 1 + PrimSize(dT.of.name) <= Len(input)
    /\ Finished

\* C11: reading an Option<T>, a tag byte t other than 0 and 1 gives
\* InvalidTag(t) with exactly that byte, in full-copy and in eps-copy; tag 0
\* gives None and consumes the tag byte only; tag 1 gives Some of the
\* payload read after the tag.
C11_OptionTag ==
    OptionRootRead
        => /\ RootTag = 0 => /\ dpc = "Done" /\ result.val = << <<>> >>
                             /\ rpos = rootAt + 1
           /\ RootTag = 1
                => /\ dpc = "Done"
                   /\ result.val = << <<from_ne_bytes(Field(rootAt + 1,
                                           rootAt + 1 + PrimSize(dT.of.name)))>> >>
                   /\ rpos = rootAt + 1 + PrimSize(dT.of.name)
           /\ RootTag \notin {0, 1}
                => dpc = "Failed" /\ result.err = InvalidTag(RootTag)

C12_Inv ==
    /\ wpos = accepted
    /\ wpos = Len(sink)
    /\ wret.st = "Ok" => wpc = "done" /\ wret.n = wpos
    /\ wpc = "done" => wret.st = "Ok"

C12_Step ==
    /\ runs' = runs => wpos' >= wpos
    /\ runs' # runs => wpos' = 0
    /\ (wpc # "failed" /\ wpc' = "failed")
          => wpos' = wpos /\ sink' = sink /\ wret'.st = "Err"

\* C12: serialize returns the final position of WriteWithPos, which is the
\* sum of the counts the sink reported as taken and the length of the bytes
\* the sink received; the position starts at 0, never decreases, and a write
\* that fails leaves it unchanged.
C12_WrittenCount == []C12_Inv /\ [][C12_Step]_vars

C12_Witness ==
    /\ wret.st = "Ok" /\ sinkK.kind = "slice"
    /\ wret.n = sinkK.lim /\ Len(sink) = sinkK.lim

\* the alignment of the type of the field f of the stream
FieldAlign(f) ==
    CASE f = "MAGIC" -> PrimSize("u64")
      [] f \in {"VERSION_MAJOR", "VERSION_MINOR", "USIZE_SIZE"} -> PrimSize("u16")
      [] f \in {"TYPE_HASH", "TYPE_REPR_HASH"} -> PrimSize("u64")
      [] f = "ROOT" -> AlignOf(wT)

\* C13: in a stream produced by serialize every field begins at an offset
\* that is a multiple of the alignment of its type (TYPE_NAME, whose bytes
\* begin after the padding its own serialization writes, is left out).
C13_OutputAlignment ==
    (wpc = "done" /\ sinkK.kind = "all")
        => \A i \in 1..Len(schema) :
              schema[i].field # "TYPE_NAME"
                 => schema[i].offset % FieldAlign(schema[i].field) = 0

\* whether IS_ZERO_COPY is true for the type of every field of the struct t
AllFieldsZeroCopy(t) == \A i \in 1..Len(t.fields) : IS_ZERO_COPY(t.fields[i].ty)

\* C14: for a derived struct, IS_ZERO_COPY is true exactly when the struct
\* is declared #[zero_copy], is #[repr(C)], and IS_ZERO_COPY is true for
\* every field type.
C14_IsZeroCopy ==
    wT.k = "struct"
        => (IS_ZERO_COPY(wT)
               <=> (wT.zero_copy /\ wT.repr_c /\ AllFieldsZeroCopy(wT)))

\* C15: for a derived struct, ZERO_COPY_MISMATCH is true exactly when the
\* struct is declared neither #[zero_copy] nor #[full_copy] and IS_ZERO_COPY
\* is true for every field type; it is false for a zero-copy struct and for
\* the built-in types; the serializer prints its warning exactly for the
\* types whose ZERO_COPY_MISMATCH is true.
C15_ZeroCopyMismatch ==
    wpc # "idle"
        => /\ wT.k = "struct"
                => /\ ZERO_COPY_MISMATCH(wT)
                        <=> (~wT.zero_copy /\ ~wT.full_copy /\ AllFieldsZeroCopy(wT))
                   /\ wT.zero_copy => ~ZERO_COPY_MISMATCH(wT)
                   /\ wpc = "done"
                        => (warnings # <<>>
                              <=> (~wT.zero_copy /\ ~wT.full_copy
                                   /\ AllFieldsZeroCopy(wT)))
           /\ wT.k # "struct" => ~ZERO_COPY_MISMATCH(wT) /\ warnings = <<>>

C15_Witness ==
    /\ wpc = "done" /\ wT.k = "struct" /\ wT.repr_c /\ ~wT.zero_copy
    /\ ~wT.full_copy /\ AllFieldsZeroCopy(wT)
    /\ ZERO_COPY_MISMATCH(wT) /\ warnings # <<>>

\* C16: a struct declared #[zero_copy] with a field whose type is not zero
\* copy is rejected when it is derived: no serialization of a value of such
\* a type is ever started.
C16_RejectedAtDerive ==
    (wT.k = "struct" /\ wT.zero_copy /\ ~AllFieldsZeroCopy(wT))
        => wpc = "idle"

\* C17: over the serializations of one process the warning naming a type
\* is printed at most once.
C17_WarningOnce ==
    \A i, j \in 1..Len(warnings) : warnings[i] = warnings[j] => i = j

\* the names of the fields of the struct t as declared
DeclNames(t) == [i \in 1..Len(t.fields) |-> t.fields[i].name]

\* the names of the fields of a trace of writes or reads
Names(tr) == [i \in 1..Len(tr) |-> tr[i].field]

IsPrefix(a, b) == Len(a) <= Len(b) /\ a = SubSeq(b, 1, Len(a))

\* whether the body of the requested type was read to its end
BodyOk == dpc \in {"BodyRead", "Done"}

\* C18: the derived serializer writes the fields of a struct in declaration
\* order, each after the one before, and the derived full-copy and eps-copy
\* deserializers read them in that same order, for zero-copy and other
\* structs alike: the reads made are the declared fields from the first on,
\* none skipped, repeated or out of order, and all of them when the read
\* succeeds.
C18_FieldOrdering ==
    /\ (wpc = "done" /\ wT.k = "struct")
          => /\ Names(wfields) = DeclNames(wT)
             /\ \A i \in 1..(Len(wfields) - 1) :
                   wfields[i].offset + wfields[i].size <= wfields[i + 1].offset
    /\ (dT.k = "struct" /\ rootAt # -1)
          => /\ IsPrefix(Names(rfields), DeclNames(dT))
             /\ \A i \in 1..(Len(rfields) - 1) : rfields[i].at <= rfields[i + 1].at
             /\ BodyOk => Names(rfields) = DeclNames(dT)

C18_Witness ==
    /\ dpc = "Done" /\ dT.k = "struct" /\ ~dT.zero_copy /\ mode = "eps"
    /\ Names(rfields) = <<"a", "b">>

\* whether an eps copy of a struct that is not zero copy was read to its end
DeepEpsRead == dT.k = "struct" /\ ~dT.zero_copy /\ mode = "eps" /\ BodyOk

C20_ZeroCopyImage ==
    /\ (wpc = "done" /\ wT.k = "struct" /\ wT.zero_copy)
          => Entry("ROOT").size = SizeOf(wT)
    /\ (dT.k = "struct" /\ dT.zero_copy /\ mode = "eps" /\ BodyOk)
          => rpos - (rootAt + pad_align_to(rootAt, AlignOf(dT))) = SizeOf(dT)

\* whether the header fields of the input pass the checks of check_header
MagicOk == Field(0, 8) = MAGIC
MajorOk == StreamMajor = VERSION_MAJOR
MinorOk == StreamMinor <= VERSION_MINOR
UsizeOk == Field(12, 13) = <<USIZE_BYTES>>
TypeHashOk == Field(13, 21) = Xxh3(type_hash(dT))
TypeReprHashOk == Field(21, 29) = Xxh3(type_repr_hash(dT))

\* what makes two types structurally different: for a derived struct its
\* name and the names and types of its fields, for any other type the type
Structure(t) ==
    IF t.k = "struct"
    THEN [name |-> t.name,
          fields |-> [i \in 1..Len(t.fields) |->
                         [name |-> t.fields[i].name, ty |-> t.fields[i].ty]]]
    ELSE t

\* C21: a type structurally different from the requested type feeds a
\* different sequence to type_hash (the hasher taken as injective on what it
\* is fed).
C21_HashDistinction ==
    dpc # "Idle"
        => \A u \in Types \cup DerivedTypes :
              Structure(u) # Structure(dT) => type_hash(u) # type_hash(dT)

\* C22: type_hash does not depend on the representation: two derived
\* structs with the same name, field names and field types that differ only
\* in #[repr(C)] or #[zero_copy] have the same type_hash, and the type_hash
\* of a primitive is made of its name only.
C22_HashIgnoresRepr ==
    dpc # "Idle"
        => /\ dT.k = "struct"
                => \A u \in DerivedTypes :
                      Structure(u) = Structure(dT) => type_hash(u) = type_hash(dT)
           /\ dT.k = "prim" => type_hash(dT) = HashStr(type_name(dT))

\* the orders in which n fields can be declared
Orders(n) == {p \in [1..n -> 1..n] : \A i, j \in 1..n : i # j => p[i] # p[j]}

\* the struct t with its fields declared in the order p
Reordered(t, p) == [t EXCEPT !.fields = [i \in 1..Len(t.fields) |-> t.fields[p[i]]]]

\* C23: a zero-copy struct and the struct of the same name with the same
\* fields declared in another order have the same type_hash.
C23_HashIgnoresFieldOrder ==
    (dpc # "Idle" /\ dT.k = "struct" /\ dT.zero_copy)
        => \A p \in Orders(Len(dT.fields)) :
              type_hash(Reordered(dT, p)) = type_hash(dT)

\* C23, amended: type_hash feeds the names and the types of the fields in
\* declaration order: a zero-copy struct and the struct of the same name with
\* the same fields have the same type_hash exactly when the fields are
\* declared in the same order of names and types.
C23_HashFollowsFieldOrder ==
    (dpc # "Idle" /\ dT.k = "struct" /\ dT.zero_copy)
        => \A p \in Orders(Len(dT.fields)) :
              (type_hash(Reordered(dT, p)) = type_hash(dT))
                  <=> (Structure(Reordered(dT, p)) = Structure(dT))

C23_Witness ==
    /\ dpc = "Done" /\ dT.k = "struct" /\ dT.zero_copy
    /\ \E p \in Orders(Len(dT.fields)) :
          /\ Structure(Reordered(dT, p)) # Structure(dT)
          /\ type_hash(Reordered(dT, p)) # type_hash(dT)

\* the largest alignment of a zero-copy type that reading a stream as type t
\* reinterprets or reads in place: the usize of a length (the type name of
\* the header has one) and the type itself
MaxAlign(t) == Max(PrimSize("usize"), AlignOf(t))

\* the address, modulo 16, and the alignment of the view the eps copy of the
\* root borrows from the input, when it borrows one
RootView ==
    CASE dT.k = "Vec" ->
            [addr |-> base + rpos - Len(Val(result)) * SizeOf(dT.of),
             align |-> AlignOf(dT.of)]
      [] dT.k = "String" -> [addr |-> base + rpos - Len(Val(result)), align |-> 1]
      [] dT.k = "struct" /\ dT.zero_copy ->
            [addr |-> base + rpos - SizeOf(dT), align |-> AlignOf(dT)]
      [] OTHER -> [addr |-> 0, align |-> 1]

C30_BackendReleased ==
    ~loader.running => live = cases

\* the root is a sequence of zero-copy elements that deserialize_slice was
\* called on
SliceRoot == mode = "eps" /\ dT.k \in {"Vec", "String"} /\ rootAt >= 0

\* size_of of the elements of the requested sequence
ElemSize == IF dT.k = "Vec" THEN PrimSize(dT.of.name) ELSE 1

\* where the length prefix of the root lies, the prefix, and where the
\* elements start
LenAt == rootAt + pad_align_to(rootAt, 8)
LenPrefix == from_ne_bytes(Field(LenAt, LenAt + 8))
DataAt == LenAt + 8 + pad_align_to(LenAt + 8, ElemSize)

\* the length prefix was read and the elements start at an aligned address
\* within the input
PrefixRead ==
    /\ LenAt + 8 <= Len(input) /\ (base + LenAt) % 8 = 0
    /\ DataAt <= Len(input) /\ (base + DataAt) % ElemSize = 0

\* C26: whatever length prefix len the stream holds, deserialize_slice does
\* not panic, and a slice it returns has exactly len elements, lies within
\* the input and leaves the cursor len * size_of::<T>() bytes after the
\* padding.
C26_SliceBounds ==
    (SliceRoot /\ PrefixRead /\ Finished)
        => /\ dpc # "Panicked"
           /\ dpc = "Done"
                 => /\ Len(result.val[1]) = LenPrefix
                    /\ rpos = DataAt + LenPrefix * ElemSize
                    /\ rpos <= Len(input)

\* the zero-sized types: () and PhantomData<T>
ZeroSized(t) == t.k \in {"unit", "PhantomData"}

\* the step that writes the root leaves the sink and the position of the
\* writer as they were, and the step that reads the root succeeds and
\* leaves the position of the reader as it was
C27_Step ==
    /\ (wpc = "ROOT" /\ wpc' # wpc /\ ZeroSized(wT))
          => (wpc' = "done" /\ sink' = sink /\ wpos' = wpos /\ wret'.n = wpos)
    /\ (dpc = "HeaderRead" /\ dpc' # dpc /\ ZeroSized(dT))
          => (dpc' = "BodyRead" /\ rpos' = rpos)

\* C27: serializing a value of type () or PhantomData<T> writes no bytes and
\* leaves the position of the writer unchanged, and deserializing one, full
\* copy or eps copy, reads no bytes and leaves the position of the reader
\* unchanged.
C27_ZeroSized == [][C27_Step]_vars

C27_Witness ==
    /\ wpc = "done" /\ wT = PhantomOf(Prim("u32")) /\ wret.st = "Ok"
    /\ Entry("ROOT").size = 0 /\ wpos = Entry("ROOT").offset

\* the bytes the field e of the schema was given to write
Offered(e) == IF e.field = "ROOT" THEN _serialize_inner(wT, wV, e.offset)
              ELSE HeaderFieldBytes(e.field, wT, e.offset)

\* C28: when serialize returns Ok the sink holds every byte of every field
\* of the header and of the root, in the order they were written, whatever
\* the sink took of each write.
C28_NoBytesLost ==
    wret.st = "Ok"
        => \A i \in 1..Len(schema) :
              /\ schema[i].offset + schema[i].size <= Len(sink)
              /\ SubSeq(sink, schema[i].offset + 1,
                        schema[i].offset + schema[i].size) = Offered(schema[i])

\* C29: whatever bytes deserialize_full_copy or deserialize_eps_copy is
\* given, the call returns Ok or a DeserializeError; it never panics.
C29_NoPanic == dpc # "Panicked"

\* the first check, in the order of check_header, that the stream fails
FirstFailing ==
    IF ~MagicOk THEN "magic"
    ELSE IF ~MajorOk THEN "major"
    ELSE IF ~MinorOk THEN "minor"
    ELSE IF ~UsizeOk THEN "usize"
    ELSE IF ~TypeHashOk THEN "hash"
    ELSE IF ~TypeReprHashOk THEN "repr"
    ELSE "none"

CheckOf(kind) ==
    CASE kind \in {"EndiannessError", "MagicCookieError"} -> "magic"
      [] kind = "MajorVersionMismatch" -> "major"
      [] kind = "MinorVersionMismatch" -> "minor"
      [] kind = "UsizeSizeMismatch" -> "usize"
      [] kind = "WrongTypeHash" -> "hash"
      [] kind = "WrongTypeReprHash" -> "repr"
      [] OTHER -> "other"

\* C9: check_header returns the error of the first failing check in the
\* order magic, major, minor, pointer width, type hash, representation hash;
\* WrongTypeReprHash only with equal type hashes and different
\* representation hashes.
C9_Precedence ==
    HeaderChecked
        => /\ hdr.st = "Ok" => FirstFailing = "none"
           /\ (hdr.st = "Err" /\ CheckOf(hdr.err.kind) # "other")
                => CheckOf(hdr.err.kind) = FirstFailing
           /\ (Len(input) >= 13 /\ FirstFailing \in {"magic", "major", "minor", "usize"})
                => hdr.st = "Err" /\ CheckOf(hdr.err.kind) = FirstFailing
           /\ (hdr.st = "Err" /\ hdr.err.kind = "WrongTypeReprHash")
                => TypeHashOk /\ ~TypeReprHashOk

C9_Witness ==
    /\ HeaderChecked /\ hdr.st = "Err" /\ hdr.err.kind = "WrongTypeHash"
    /\ ~TypeHashOk /\ ~TypeReprHashOk /\ origin = "crafted"

C10_Inv ==
    /\ rootAt # -1 => hdr.st = "Ok" /\ rootAt = hdr.pos
    /\ dpc \in {"HeaderRead", "BodyRead", "Done"} => hdr.st = "Ok"
    /\ dpc = "Done" => rootAt # -1 /\ result.st = "Ok"
    /\ (HeaderChecked /\ hdr.st = "Err")
          => /\ dpc = "Failed" /\ rootAt = -1 /\ rpos = hdr.pos
             /\ result = [st |-> "Err", val |-> <<>>, err |-> hdr.err]
    /\ dpc = "Failed" => result.st = "Err" /\ result.val = <<>>

\* the steps of one call (a load function called again starts another call)
C10_Step ==
    loads' = loads
        => /\ dpc = "Failed" => UNCHANGED dvars
           /\ (dpc' = "Done" /\ dpc # "Done") => dpc = "BodyRead"
           /\ (dpc' = "BodyRead" /\ dpc # "BodyRead") => dpc = "HeaderRead"
           /\ (dpc' = "HeaderRead" /\ dpc # "HeaderRead") => dpc = "Start"
           /\ rpos' >= rpos

\* C10: the body is read only after check_header has succeeded; a header
\* failure ends the call with that error and no byte of the body read; Failed
\* is terminal and returns no value; Done is reached only through HeaderRead
\* and BodyRead.
C10_StateMachine == []C10_Inv /\ [][C10_Step]_vars

C10_Witness ==
    /\ dpc = "Done" /\ hdr.st = "Ok" /\ rootAt = hdr.pos /\ result.st = "Ok"

====
